---- MODULE Spec2Model ----
(***************************************************************************)
(* Model of src/main.py: the collage server.                               *)
(*                                                                         *)
(* The module globals uploaded_images, last_collage_time and               *)
(* recent_collage are shared without any lock by                           *)
(*   - the scheduler thread (collage_scheduler / create_dynamic_collage),  *)
(*   - the request threads running upload_file,                            *)
(*   - the threads running handle_connect for a connecting client,         *)
(* and all of them read the wall clock (datetime.now()).                   *)
(*                                                                         *)
(* Granularity.  A list comprehension over the global list fetches the     *)
(* list object once and walks it by index; appends made by other threads   *)
(* before the iterator is exhausted are seen, and nothing ever removes an  *)
(* element in place (the prune rebinds the global to a new list, and only  *)
(* the iterating thread itself prunes).  A comprehension therefore yields  *)
(* the filter of the list as it is when the iterator is exhausted, and is  *)
(* modelled as one atomic read at that moment.  The rebinding of the       *)
(* global (STORE_GLOBAL) is a separate step: other threads can run between *)
(* the end of the iteration and the rebinding.                             *)
(*                                                                         *)
(* Time.  The clock counts half intervals (30 s): COLLAGE_INTERVAL is 2.    *)
(* A step takes zero or more units, so two readings of the clock may       *)
(* return the same value, and time.sleep may return late.                  *)
(*                                                                         *)
(* Exceptions.  Nothing in main.py catches an exception raised inside      *)
(* create_dynamic_collage; it ends the scheduler thread (spc = "dead").    *)
(***************************************************************************)
EXTENDS Integers, Sequences, FiniteSets, TLC

\* ---------------------------------------------------------------- bounds
MaxTime == 4         \* the clock stops advancing here
MaxImages == 1       \* number of uploads that are accepted in a run
MaxSchedTime == 7    \* where the clock stops when no client uploads
MaxBurst == 2        \* number of uploads accepted in a run of BurstSpec
MaxBurstTime == 2    \* where the clock stops in a run of BurstSpec
MaxLayoutImages == 10 \* largest number of images composed in LayoutSpec
MaxLayoutTime == 3   \* where the clock stops in a run of LayoutSpec

\* ------------------------------------------------------ program constants
COLLAGE_INTERVAL == 2           \* main.py:15: 60 s, in clock units of 30 s
A4_SIZE == <<2480, 3508>>       \* main.py:14
ALLOWED_EXTENSIONS ==           \* main.py:13
    { <<"p","n","g">>, <<"j","p","g">>, <<"j","p","e","g">>, <<"g","i","f">> }
None == -1                      \* Python's None (recent_collage, main.py:32)

VARIABLES
    now,                \* datetime.now()
    uploaded_images,    \* global list of [id, timestamp]
    last_collage_time,  \* global
    recent_collage,     \* global, None or a collage filename
    events,             \* what was handed to socketio.emit, in order
    \* scheduler thread
    spc,                \* its position
    current_time,       \* create_dynamic_collage's current_time
    recent_images,      \* create_dynamic_collage's recent_images
    collage,            \* rectangles pasted on the canvas so far
    collage_filename,   \* create_dynamic_collage's collage_filename
    prune_time,         \* collage_scheduler's current_time (line 171)
    pruned,             \* the list built by the comprehension of line 172
    sleep_start,        \* when time.sleep was entered
    \* request threads
    pending,            \* records built at line 211, not yet appended
    emitting,           \* records appended, their new_upload not yet emitted
    response,           \* status of the last response upload_file returned
    \* a thread running handle_connect
    conn_pc,            \* its position
    conn_images,        \* the list built by the comprehension of line 231
    conn_recent,        \* the value of recent_collage it read (line 232)
    conn_now,           \* the value datetime.now() returned to it (line 233)
    initial_state,      \* the last initial_state payload emitted (line 230)
    \* bookkeeping, read by the properties only
    nextId,             \* next fresh uuid (line 206)
    inflight,           \* ids appended while the last cycle was in flight
    seen,               \* ids that were in the window of an earlier cycle
    failure,            \* "none", or why the scheduler thread ended
    cycle0,             \* the globals as they were when the cycle started
    appended,           \* the ids in the order uploaded_images.append took them
    snapshot            \* the store as the cycle's window read found it

schedVars == <<spc, current_time, recent_images, collage, collage_filename,
               prune_time, pruned, sleep_start>>
handlerVars == <<pending, emitting, response>>
connVars == <<conn_pc, conn_images, conn_recent, conn_now, initial_state>>
globalVars == <<uploaded_images, last_collage_time, recent_collage, events>>
bookVars == <<nextId, inflight, seen, failure, cycle0, appended, snapshot>>
vars == <<now, globalVars, schedVars, handlerVars, connVars, bookVars>>

\* ------------------------------------------------------------- helpers
NoCycle == [store |-> <<>>, time |-> 0, recent |-> None, emitted |-> 0]

\* no initial_state event was emitted yet
NoState == [uploaded_images |-> <<>>, recent_collage |-> None, remaining_time |-> 0]

SeqToSet(s) == { s[i] : i \in 1..Len(s) }

\* [os.path.basename(img['path']) for img in images]
Ids(images) == [i \in 1..Len(images) |-> images[i].id]

\* [img for img in images if t - img['timestamp'] <= timedelta(seconds=COLLAGE_INTERVAL)]
Window(images, t) ==
    SelectSeq(images, LAMBDA img : t - img.timestamp <= COLLAGE_INTERVAL)

IsPrefix(s, t) ==
    /\ Len(s) <= Len(t)
    /\ \A i \in 1..Len(s) : s[i] = t[i]

\* str.lower() on the characters the requests use
Lower(c) ==
    CASE c = "P" -> "p" [] c = "N" -> "n" [] c = "G" -> "g"
      [] c = "J" -> "j" [] c = "I" -> "i" [] c = "F" -> "f"
      [] c = "E" -> "e" [] c = "T" -> "t" [] c = "X" -> "x"
      [] OTHER -> c

\* filename.rsplit('.', 1)[1]: what follows the last '.'
LastDot(filename) ==
    CHOOSE i \in 1..Len(filename) :
        /\ filename[i] = "."
        /\ \A j \in (i+1)..Len(filename) : filename[j] # "."

ExtOf(filename) ==
    [i \in 1..(Len(filename) - LastDot(filename)) |->
        Lower(filename[LastDot(filename) + i])]

allowed_file(filename) ==
    /\ \E i \in 1..Len(filename) : filename[i] = "."
    /\ ExtOf(filename) \in ALLOWED_EXTENSIONS

\* the requests a client can send to /upload
Requests ==
    { [hasFile |-> FALSE, filename |-> <<>>],
      [hasFile |-> TRUE,  filename |-> <<>>],
      [hasFile |-> TRUE,  filename |-> <<"a",".","p","n","g">>],
      [hasFile |-> TRUE,  filename |-> <<"a",".","J","P","G">>],
      [hasFile |-> TRUE,  filename |-> <<"a",".","g","i","f",".","t","x","t">>],
      [hasFile |-> TRUE,  filename |-> <<"p","n","g">>] }

\* upload_file reaches line 205
Accepted(req) ==
    /\ req.hasFile
    /\ req.filename # <<>>
    /\ allowed_file(req.filename)

\* ---------------------------------------------------------------- layout
\* the square root rounded down instead of up
GridSizeFloor(n) == CHOOSE g \in 0..n : g * g <= n /\ (g + 1) * (g + 1) > n

\* int(np.ceil(np.sqrt(n)))
GridSize(n) == CHOOSE g \in 0..n : g * g >= n /\ (g = 0 \/ (g - 1) * (g - 1) < n)

Rect(x, y, w, h) == [x |-> x, y |-> y, w |-> w, h |-> h]

\* a layout whose bottom image of three is a third of the height, rounded down
PlacementShortBottom(n, i) ==
    LET width == A4_SIZE[1]
        height == A4_SIZE[2]
        g == GridSize(n)
    IN  IF n = 1 THEN Rect(0, 0, width, height)
        ELSE IF n = 2 THEN
            Rect((i - 1) * (width \div 2), 0,
                 IF i = 1 THEN width \div 2 ELSE width - width \div 2, height)
        ELSE IF n = 3 THEN
            IF i = 3 THEN Rect(0, (height * 2) \div 3, width, height \div 3)
            ELSE Rect((i - 1) * (width \div 2), 0,
                      IF i = 1 THEN width \div 2 ELSE width - width \div 2,
                      (height * 2) \div 3)
        ELSE Rect(((i - 1) % g) * (width \div g), ((i - 1) \div g) * (height \div g),
                  width \div g, height \div g)

\* the rectangle image i (1-based) of n is fitted to and pasted at
Placement(n, i) ==
    LET width == A4_SIZE[1]
        height == A4_SIZE[2]
    IN  IF n = 1 THEN Rect(0, 0, width, height)
        ELSE IF n = 2 THEN
            LET half_width == width \div 2
            IN  IF i = 1 THEN Rect(0, 0, half_width, height)
                ELSE Rect(half_width, 0, width - half_width, height)
        ELSE IF n = 3 THEN
            LET top_height == (height * 2) \div 3
                top_width == width \div 2
            IN  IF i = 1 THEN Rect(0, 0, top_width, top_height)
                ELSE IF i = 2 THEN Rect(top_width, 0, width - top_width, top_height)
                ELSE Rect(0, top_height, width, height - top_height)
        ELSE
            LET grid_size == GridSize(n)
                cell_width == width \div grid_size
                cell_height == height \div grid_size
                row == (i - 1) \div grid_size
                col == (i - 1) % grid_size
            IN  Rect(col * cell_width, row * cell_height, cell_width, cell_height)

\* the pastes done on images[1..k]
Pasted(images, k) ==
    [i \in 1..k |-> [id |-> images[i].id, rect |-> Placement(Len(images), i)]]

\* ------------------------------------------------------------------ Init
Init ==
    /\ now = 0
    /\ uploaded_images = <<>>
    /\ last_collage_time = 0
    /\ recent_collage = None
    /\ events = <<>>
    /\ spc = "sleep"
    /\ current_time = 0
    /\ recent_images = <<>>
    /\ collage = <<>>
    /\ collage_filename = None
    /\ prune_time = 0
    /\ pruned = <<>>
    /\ sleep_start = now
    /\ pending = {}
    /\ emitting = {}
    /\ response = 0
    /\ nextId = 1
    /\ inflight = {}
    /\ seen = {}
    /\ failure = "none"
    /\ cycle0 = NoCycle
    /\ appended = <<>>
    /\ snapshot = <<>>
    /\ conn_pc = "idle"
    /\ conn_images = <<>>
    /\ conn_recent = None
    /\ conn_now = 0
    /\ initial_state = NoState

\* ----------------------------------------------------------------- clock
Tick ==
    /\ now < MaxTime
    /\ now' = now + 1
    /\ UNCHANGED <<globalVars, schedVars, handlerVars, connVars, bookVars>>

\* ----------------------------------------------------------- upload_file
\* Request threads are anonymous: a request in progress is known by what it
\* still has to do.

\* a handler that stores the file before it looks at its name
UploadRejectAfterAppend ==
    /\ \E req \in Requests : ~Accepted(req)
    /\ uploaded_images' = Append(uploaded_images, [id |-> 0, timestamp |-> now])
    /\ response' = 400
    /\ UNCHANGED <<now, last_collage_time, recent_collage, events, schedVars,
                   pending, emitting, connVars, bookVars>>

\* lines 196-202 and 224: the request is turned down and a 400 returned
UploadReject ==
    /\ \E req \in Requests : ~Accepted(req)
    /\ response' = 400
    /\ UNCHANGED <<now, globalVars, schedVars, pending, emitting, connVars, bookVars>>

\* lines 204-214 up to the evaluation of datetime.now()
UploadAccept ==
    /\ nextId <= MaxImages
    /\ \E req \in Requests : Accepted(req)
    /\ pending' = pending \cup {[id |-> nextId, timestamp |-> now]}
    /\ nextId' = nextId + 1
    /\ UNCHANGED <<now, globalVars, schedVars, emitting, response, connVars,
                   inflight, seen, failure, cycle0, appended, snapshot>>

\* where the scheduler is between its window read and the end of its prune
InFlightPcs == {"compose", "save", "update_time", "update_recent", "emit",
                "prune_now", "prune_filter", "prune_store"}

\* line 211: uploaded_images.append(...)
UploadAppend ==
    \E img \in pending :
        /\ uploaded_images' = Append(uploaded_images, img)
        /\ inflight' = IF spc \in InFlightPcs THEN inflight \cup {img.id} ELSE inflight
        /\ pending' = pending \ {img}
        /\ emitting' = emitting \cup {img}
        /\ appended' = Append(appended, img.id)
        /\ UNCHANGED <<now, last_collage_time, recent_collage, events, schedVars,
                       response, connVars, nextId, seen, failure, cycle0,
                       snapshot>>

\* lines 217-222: socketio.emit('new_upload', ...), and the 200 response
UploadEmit ==
    \E img \in emitting :
        /\ events' = Append(events,
                [type |-> "new_upload", filename |-> img.id,
                 uploaded_images |-> Ids(uploaded_images)])
        /\ emitting' = emitting \ {img}
        /\ response' = 200
        /\ UNCHANGED <<now, uploaded_images, last_collage_time, recent_collage,
                       schedVars, pending, connVars, bookVars>>

\* ---------------------------------------------------- collage_scheduler
CollageEvents == SelectSeq(events, LAMBDA e : e.type = "new_collage")

\* a sleep that returns one clock unit early
WakeEarly ==
    /\ spc = "sleep"
    /\ now - sleep_start >= COLLAGE_INTERVAL - 1
    /\ current_time' = now
    /\ spc' = "cdc_filter"
    /\ cycle0' = [store |-> uploaded_images, time |-> last_collage_time,
                  recent |-> recent_collage, emitted |-> Len(CollageEvents)]
    /\ UNCHANGED <<now, globalVars, recent_images, collage, collage_filename,
                   prune_time, pruned, sleep_start, handlerVars, connVars,
                   nextId, inflight, seen, failure, appended, snapshot>>

\* line 165 returns, line 168 calls create_dynamic_collage, line 49 reads the clock
Wake ==
    /\ spc = "sleep"
    /\ now - sleep_start >= COLLAGE_INTERVAL
    /\ current_time' = now
    /\ spc' = "cdc_filter"
    /\ cycle0' = [store |-> uploaded_images, time |-> last_collage_time,
                  recent |-> recent_collage, emitted |-> Len(CollageEvents)]
    /\ UNCHANGED <<now, globalVars, recent_images, collage, collage_filename,
                   prune_time, pruned, sleep_start, handlerVars, connVars,
                   nextId, inflight, seen, failure, appended, snapshot>>

\* lines 50-58: the window, the blank canvas, the choice of branch
CdcFilter ==
    /\ spc = "cdc_filter"
    /\ recent_images' = Window(uploaded_images, current_time)
    /\ collage' = <<>>
    /\ seen' = seen \cup SeqToSet(Ids(recent_images'))
    /\ inflight' = {}
    /\ snapshot' = uploaded_images
    /\ spc' = IF recent_images' = <<>> THEN "save" ELSE "compose"
    /\ UNCHANGED <<now, globalVars, current_time, collage_filename, prune_time,
                   pruned, sleep_start, handlerVars, connVars,
                   nextId, failure, cycle0, appended>>

\* an exception leaves create_dynamic_collage and collage_scheduler: nothing
\* catches it, the frames and their locals are gone and the thread has ended
Raise(why) ==
    /\ spc' = "dead"
    /\ failure' = why
    /\ current_time' = 0
    /\ recent_images' = <<>>
    /\ collage' = <<>>
    /\ collage_filename' = None
    /\ snapshot' = <<>>
    /\ UNCHANGED <<now, globalVars, prune_time, pruned, sleep_start, handlerVars,
                   connVars, nextId, inflight, seen, cycle0, appended>>

\* a composition that reads the store again instead of its recent_images
ComposeFromStore ==
    /\ spc = "compose"
    /\ collage' = Pasted(Window(uploaded_images, current_time),
                         Len(Window(uploaded_images, current_time)))
    /\ spc' = "save"
    /\ UNCHANGED <<now, globalVars, current_time, recent_images,
                   collage_filename, prune_time, pruned, sleep_start,
                   handlerVars, connVars, bookVars>>

\* lines 77-139, every Image.open succeeds: each image is fitted and pasted
ComposeOk ==
    /\ spc = "compose"
    /\ collage' = Pasted(recent_images, Len(recent_images))
    /\ spc' = "save"
    /\ UNCHANGED <<now, globalVars, current_time, recent_images,
                   collage_filename, prune_time, pruned, sleep_start,
                   handlerVars, connVars, bookVars>>

\* lines 77-139, Image.open raises on one of the files
ComposeFail ==
    /\ spc = "compose"
    /\ \E bad \in 1..Len(recent_images) : Raise("decode")

\* lines 60-62 and 142-144, collage.save succeeds
SaveOk ==
    /\ spc = "save"
    /\ collage_filename' = now
    /\ spc' = "update_time"
    /\ UNCHANGED <<now, globalVars, current_time, recent_images, collage,
                   prune_time, pruned, sleep_start, handlerVars, connVars, bookVars>>

\* a save that fails after lines 147-148 ran
SaveFailAfterCommit ==
    /\ spc = "save"
    /\ spc' = "dead"
    /\ failure' = "save"
    /\ last_collage_time' = current_time
    /\ recent_collage' = now
    /\ current_time' = 0
    /\ recent_images' = <<>>
    /\ collage' = <<>>
    /\ collage_filename' = None
    /\ snapshot' = <<>>
    /\ UNCHANGED <<now, uploaded_images, events, prune_time, pruned, sleep_start,
                   handlerVars, connVars, nextId, inflight, seen, cycle0, appended>>

\* lines 60-62 and 142-144, collage.save raises
SaveFail ==
    /\ spc = "save"
    /\ Raise("save")

\* lines 65 and 147
UpdateTime ==
    /\ spc = "update_time"
    /\ last_collage_time' = current_time
    /\ spc' = "update_recent"
    /\ UNCHANGED <<now, uploaded_images, recent_collage, events, current_time,
                   recent_images, collage, collage_filename, prune_time, pruned,
                   sleep_start, handlerVars, connVars, bookVars>>

\* lines 66 and 148
UpdateRecent ==
    /\ spc = "update_recent"
    /\ recent_collage' = collage_filename
    /\ spc' = "emit"
    /\ UNCHANGED <<now, uploaded_images, last_collage_time, events, current_time,
                   recent_images, collage, collage_filename, prune_time, pruned,
                   sleep_start, handlerVars, connVars, bookVars>>

\* the list of ids the new_collage event carries: line 71 in the blank branch,
\* line 153 otherwise
EmittedIds(window, store) ==
    IF window = <<>> THEN <<>> ELSE Ids(store)

\* lines 69-72 and 151-154: socketio.emit('new_collage', ...)
EmitCollage ==
    /\ spc = "emit"
    /\ events' = Append(events,
            [type |-> "new_collage", filename |-> collage_filename,
             uploaded_images |-> EmittedIds(recent_images, uploaded_images)])
    /\ spc' = "prune_now"
    /\ UNCHANGED <<now, uploaded_images, last_collage_time, recent_collage,
                   current_time, recent_images, collage, collage_filename,
                   prune_time, pruned, sleep_start, handlerVars, connVars, bookVars>>

\* line 171
PruneNow ==
    /\ spc = "prune_now"
    /\ prune_time' = now
    /\ spc' = "prune_filter"
    /\ UNCHANGED <<now, globalVars, current_time, recent_images, collage,
                   collage_filename, pruned, sleep_start, handlerVars, connVars, bookVars>>

\* lines 172-175, the comprehension
PruneFilter ==
    /\ spc = "prune_filter"
    /\ pruned' = Window(uploaded_images, prune_time)
    /\ spc' = "prune_store"
    /\ UNCHANGED <<now, globalVars, current_time, recent_images, collage,
                   collage_filename, prune_time, sleep_start, handlerVars, connVars, bookVars>>

\* a prune that stores the kept entries newest first
PruneStoreNewestFirst ==
    /\ spc = "prune_store"
    /\ uploaded_images' = [i \in 1..Len(pruned) |-> pruned[Len(pruned) + 1 - i]]
    /\ sleep_start' = now
    /\ spc' = "sleep"
    /\ current_time' = 0
    /\ recent_images' = <<>>
    /\ collage' = <<>>
    /\ collage_filename' = None
    /\ prune_time' = 0
    /\ pruned' = <<>>
    /\ cycle0' = NoCycle
    /\ snapshot' = <<>>
    /\ UNCHANGED <<now, last_collage_time, recent_collage, events, handlerVars,
                   connVars, nextId, inflight, seen, failure, appended>>

\* line 172, the rebinding of the global; then line 165 again.  The cycle is
\* over: its locals are never read again before they are assigned, and are
\* cleared here.
PruneStore ==
    /\ spc = "prune_store"
    /\ uploaded_images' = pruned
    /\ sleep_start' = now
    /\ spc' = "sleep"
    /\ current_time' = 0
    /\ recent_images' = <<>>
    /\ collage' = <<>>
    /\ collage_filename' = None
    /\ prune_time' = 0
    /\ pruned' = <<>>
    /\ cycle0' = NoCycle
    /\ snapshot' = <<>>
    /\ UNCHANGED <<now, last_collage_time, recent_collage, events, handlerVars,
                   connVars, nextId, inflight, seen, failure, appended>>

Next ==
    \/ Tick
    \/ UploadReject
    \/ UploadAccept
    \/ UploadAppend
    \/ UploadEmit
    \/ Wake
    \/ CdcFilter
    \/ ComposeOk
    \/ ComposeFail
    \/ SaveOk
    \/ SaveFail
    \/ UpdateTime
    \/ UpdateRecent
    \/ EmitCollage
    \/ PruneNow
    \/ PruneFilter
    \/ PruneStore

Spec == Init /\ [][Next]_vars

\* The scheduler thread and the clock alone, over a longer stretch of time:
\* the runs in which no client uploads anything and the disk takes every file.
SchedTick ==
    /\ now < MaxSchedTime
    /\ now' = now + 1
    /\ UNCHANGED <<globalVars, schedVars, handlerVars, connVars, bookVars>>

SchedNext ==
    \/ SchedTick
    \/ Wake
    \/ CdcFilter
    \/ SaveOk
    \/ UpdateTime
    \/ UpdateRecent
    \/ EmitCollage
    \/ PruneNow
    \/ PruneFilter
    \/ PruneStore

SchedSpec == Init /\ [][SchedNext]_vars

\* -------------------------------------------------------- handle_connect
\* The payload of line 230 is a dict display: its values are evaluated in the
\* order written, each reading a global or the clock on its own, and other
\* threads can run between two of them.

\* int(max(0, COLLAGE_INTERVAL - (t - last).total_seconds())), in clock units:
\* the difference of two readings is a whole number of units, which int()
\* leaves as it is
RemainingTime(t, last) ==
    IF COLLAGE_INTERVAL - (t - last) > 0 THEN COLLAGE_INTERVAL - (t - last) ELSE 0

\* line 231
ConnectImages ==
    /\ conn_pc = "idle"
    /\ conn_images' = Ids(uploaded_images)
    /\ conn_pc' = "recent"
    /\ UNCHANGED <<now, globalVars, schedVars, handlerVars, conn_recent, conn_now,
                   initial_state, bookVars>>

\* line 232
ConnectRecent ==
    /\ conn_pc = "recent"
    /\ conn_recent' = recent_collage
    /\ conn_pc' = "now"
    /\ UNCHANGED <<now, globalVars, schedVars, handlerVars, conn_images, conn_now,
                   initial_state, bookVars>>

\* line 233, datetime.now()
ConnectNow ==
    /\ conn_pc = "now"
    /\ conn_now' = now
    /\ conn_pc' = "emit"
    /\ UNCHANGED <<now, globalVars, schedVars, handlerVars, conn_images,
                   conn_recent, initial_state, bookVars>>

\* line 233, the read of last_collage_time, and the emit of line 230; the
\* handler returns and its locals are gone
ConnectEmit ==
    /\ conn_pc = "emit"
    /\ initial_state' = [uploaded_images |-> conn_images,
                         recent_collage |-> conn_recent,
                         remaining_time |-> RemainingTime(conn_now, last_collage_time)]
    /\ conn_pc' = "idle"
    /\ conn_images' = <<>>
    /\ conn_recent' = None
    /\ conn_now' = 0
    /\ UNCHANGED <<now, globalVars, schedVars, handlerVars, bookVars>>

\* The whole server with one client connecting, again and again.
ConnectNext ==
    \/ Next
    \/ ConnectImages
    \/ ConnectRecent
    \/ ConnectNow
    \/ ConnectEmit

ConnectSpec == Init /\ [][ConnectNext]_vars

\* Several uploads close together and the first cycles of the scheduler, in
\* the runs in which every file is readable and the disk takes every file.
BurstTick ==
    /\ now < MaxBurstTime
    /\ now' = now + 1
    /\ UNCHANGED <<globalVars, schedVars, handlerVars, connVars, bookVars>>

\* lines 204-214 up to the evaluation of datetime.now()
BurstAccept ==
    /\ nextId <= MaxBurst
    /\ \E req \in Requests : Accepted(req)
    /\ pending' = pending \cup {[id |-> nextId, timestamp |-> now]}
    /\ nextId' = nextId + 1
    /\ UNCHANGED <<now, globalVars, schedVars, emitting, response, connVars,
                   inflight, seen, failure, cycle0, appended, snapshot>>

BurstNext ==
    \/ BurstTick
    \/ BurstAccept
    \/ UploadAppend
    \/ UploadEmit
    \/ Wake
    \/ CdcFilter
    \/ ComposeOk
    \/ SaveOk
    \/ UpdateTime
    \/ UpdateRecent
    \/ EmitCollage
    \/ PruneNow
    \/ PruneFilter
    \/ PruneStore

BurstSpec == Init /\ [][BurstNext]_vars

\* The layouts.  A run starts when n uploads have been served one after the
\* other in the first instant, and goes through the scheduler's first cycle,
\* which composes the n images.
ServedUploads(n) ==
    [i \in 1..n |-> [type |-> "new_upload", filename |-> i,
                     uploaded_images |-> [k \in 1..i |-> k]]]

LayoutInit ==
    \E n \in 0..MaxLayoutImages :
        /\ now = 0
        /\ uploaded_images = [i \in 1..n |-> [id |-> i, timestamp |-> 0]]
        /\ last_collage_time = 0
        /\ recent_collage = None
        /\ events = ServedUploads(n)
        /\ spc = "sleep"
        /\ current_time = 0
        /\ recent_images = <<>>
        /\ collage = <<>>
        /\ collage_filename = None
        /\ prune_time = 0
        /\ pruned = <<>>
        /\ sleep_start = now
        /\ pending = {}
        /\ emitting = {}
        /\ response = IF n = 0 THEN 0 ELSE 200
        /\ nextId = n + 1
        /\ inflight = {}
        /\ seen = {}
        /\ failure = "none"
        /\ cycle0 = NoCycle
        /\ appended = [i \in 1..n |-> i]
        /\ snapshot = <<>>
        /\ conn_pc = "idle"
        /\ conn_images = <<>>
        /\ conn_recent = None
        /\ conn_now = 0
        /\ initial_state = NoState

LayoutTick ==
    /\ now < MaxLayoutTime
    /\ now' = now + 1
    /\ UNCHANGED <<globalVars, schedVars, handlerVars, connVars, bookVars>>

LayoutNext ==
    \/ LayoutTick
    \/ Wake
    \/ CdcFilter
    \/ ComposeOk
    \/ SaveOk
    \/ UpdateTime
    \/ UpdateRecent
    \/ EmitCollage
    \/ PruneNow
    \/ PruneFilter
    \/ PruneStore

LayoutSpec == LayoutInit /\ [][LayoutNext]_vars

\* ------------------------------------------------------------ properties
CycleEnds == spc = "prune_store" /\ spc' = "sleep"
WindowRead == spc = "cdc_filter" /\ spc' # "cdc_filter"
TickStarts == spc = "sleep" /\ spc' = "cdc_filter"

\* C1: no append is lost to a concurrent prune: every image that is in the
\* store when the prune replaces it, and whose age at the prune's clock
\* reading is at most the interval, is in the store after the prune.
C1_NoAppendLostToPrune ==
    [][CycleEnds =>
        \A i \in 1..Len(uploaded_images) :
            prune_time - uploaded_images[i].timestamp <= COLLAGE_INTERVAL
                => uploaded_images[i] \in SeqToSet(uploaded_images')]_vars

\* C2: an image appended while a cycle was in flight (after its window read,
\* before the end of its prune) is in the window of the next cycle.
C2_InFlightAppendInNextWindow ==
    [][WindowRead => inflight \subseteq SeqToSet(Ids(recent_images'))]_vars

\* C3: an image is in the window of at most one cycle.
C3_NoDoubleCount ==
    [][WindowRead => SeqToSet(Ids(recent_images')) \cap seen = {}]_vars

\* C4: when a cycle finishes, the store holds exactly the entries of that
\* cycle's window plus the images appended after the window was read.
C4_StoreAfterCycleIsWindowPlusNew ==
    [][CycleEnds =>
        /\ SeqToSet(recent_images) \subseteq SeqToSet(uploaded_images')
        /\ \A img \in SeqToSet(uploaded_images') :
              img \in SeqToSet(recent_images) \/ img.id \in inflight]_vars

\* C5: a persistence failure aborts the current cycle only: afterwards the
\* scheduler is idle or running a later cycle, it has not stopped.
C5_SaveFailureAbortsCycleOnly == failure = "save" => spc # "dead"

\* C6: when writing the collage file fails, the cycle has changed neither
\* the store (nothing pruned), nor the most recent collage, nor the last
\* collage time, and has emitted no new_collage event, and this stays so.
C6_FailedSaveCommitsNothing ==
    failure = "save" =>
        /\ IsPrefix(cycle0.store, uploaded_images)
        /\ last_collage_time = cycle0.time
        /\ recent_collage = cycle0.recent
        /\ Len(CollageEvents) = cycle0.emitted

\* C6 witness: the save of a later cycle failed, with a collage already
\* published and images tracked when the cycle started.
C6_Witness ==
    /\ failure = "save"
    /\ cycle0.recent # None
    /\ cycle0.store # <<>>

\* C7: an unreadable image in the window does not abort the cycle: the
\* scheduler goes on to save the collage and to later ticks.
C7_DecodeFailureDoesNotAbort == failure = "decode" => spc # "dead"

\* C8: when the previous cycle did not overrun and the sleep returns as soon
\* as it expires, the tick starts exactly one interval after the start of
\* the previous cycle.
C8_TicksOneIntervalApart ==
    [][(/\ TickStarts
        /\ recent_collage # None
        /\ sleep_start - last_collage_time <= COLLAGE_INTERVAL
        /\ now = sleep_start + COLLAGE_INTERVAL)
       => current_time' - last_collage_time = COLLAGE_INTERVAL]_vars

\* C9: after a cycle that took longer than the interval, the next tick
\* starts at the moment that cycle completed.
C9_OverrunFiresImmediately ==
    [][(/\ TickStarts
        /\ recent_collage # None
        /\ sleep_start - last_collage_time > COLLAGE_INTERVAL)
       => current_time' = sleep_start]_vars

\* C10: every new_collage event carries the ids of all the images in the
\* store at the moment it is emitted.
C10_CollageEventListsWholeStore ==
    [][(spc = "emit" /\ spc' = "prune_now")
       => events'[Len(events')].uploaded_images = Ids(uploaded_images)]_vars

UploadEvents == SelectSeq(events, LAMBDA e : e.type = "new_upload")

\* the place of an id in the order of the appends
AppendPos(id) == CHOOSE k \in 1..Len(appended) : appended[k] = id

\* C11: the new_upload events are emitted in the order in which the appends
\* of their images were accepted: when A was appended before B, the event
\* of A is emitted before the event of B.
C11_UploadEventsInAppendOrder ==
    \A i, j \in 1..Len(UploadEvents) :
        i < j => AppendPos(UploadEvents[i].filename) < AppendPos(UploadEvents[j].filename)

\* where the scheduler is inside a cycle, from line 49 to line 175
CyclePcs == InFlightPcs \cup {"cdc_filter"}

\* C12: a reader never finds the pair (last_collage_time, recent_collage)
\* half updated: while a cycle runs, the two globals are either both as the
\* cycle found them or both as the cycle publishes them.
C12_PairNeverHalfUpdated ==
    spc \in CyclePcs =>
        \/ /\ last_collage_time = cycle0.time
           /\ recent_collage = cycle0.recent
        \/ /\ last_collage_time = current_time
           /\ recent_collage = collage_filename

\* C13: the remaining_time of every initial_state event is a whole number
\* between 0 and the interval, before the first tick and while a cycle runs
\* late as well.
C13_RemainingTimeInRange ==
    initial_state.remaining_time \in 0..COLLAGE_INTERVAL

\* two rectangles have a pixel in common
Overlap(r, q) ==
    /\ r.x < q.x + q.w /\ q.x < r.x + r.w
    /\ r.y < q.y + q.h /\ q.y < r.y + r.h

\* a rectangle lies within the canvas
OnCanvas(r) ==
    /\ 0 <= r.x /\ r.x + r.w <= A4_SIZE[1]
    /\ 0 <= r.y /\ r.y + r.h <= A4_SIZE[2]

\* C14: a collage of four or more images is a square grid: gridSize is the
\* least g with g * g >= count (the ceiling of the square root), every cell
\* is floor(W / g) by floor(H / g), image i (from 0) sits in column i mod g
\* and row i div g; so every image is placed, every cell lies within the
\* canvas and no two images share a cell.
C14_GridLayout ==
    Len(collage) >= 4 =>
        LET count == Len(collage)
            g == CHOOSE k \in 1..count : k * k >= count /\ (k - 1) * (k - 1) < count
            w == A4_SIZE[1] \div g
            h == A4_SIZE[2] \div g
        IN  /\ count = Len(recent_images)
            /\ count <= g * g
            /\ count = 5 => g = 3
            /\ \A i \in 1..count :
                  /\ collage[i].id = recent_images[i].id
                  /\ collage[i].rect =
                        Rect(((i - 1) % g) * w, ((i - 1) \div g) * h, w, h)
                  /\ OnCanvas(collage[i].rect)
            /\ \A i, j \in 1..count :
                  i # j => ~Overlap(collage[i].rect, collage[j].rect)

\* C14 witness: a collage of five images has been composed (a 3 by 3 grid
\* with four cells left blank).
C14_Witness ==
    /\ spc = "save"
    /\ Len(collage) = 5

Area(r) == r.w * r.h

RECURSIVE SumArea(_, _)
SumArea(pastes, k) ==
    IF k = 0 THEN 0 ELSE Area(pastes[k].rect) + SumArea(pastes, k - 1)

\* C15: the rectangles of a collage of one, two or three images tile the
\* canvas exactly (on the canvas, no overlap, no pixel left uncovered), in
\* arrival order: one image fills W x H; two images are a left and a right
\* column of full height whose widths add up to W and differ by at most 1;
\* three images are a top-left and a top-right image of height floor(2H/3)
\* whose widths add up to W, over a bottom image of the full width and of
\* height H - floor(2H/3).
C15_SmallLayoutsTileCanvas ==
    Len(collage) \in 1..3 =>
        LET count == Len(collage)
            W == A4_SIZE[1]
            H == A4_SIZE[2]
            r == [i \in 1..count |-> collage[i].rect]
        IN  /\ count = Len(recent_images)
            /\ \A i \in 1..count :
                  collage[i].id = recent_images[i].id /\ OnCanvas(r[i])
            /\ \A i, j \in 1..count : i # j => ~Overlap(r[i], r[j])
            /\ SumArea(collage, count) = W * H
            /\ count = 1 => r[1] = Rect(0, 0, W, H)
            /\ count = 2 =>
                  /\ r[1].x = 0 /\ r[2].x = r[1].w
                  /\ r[1].y = 0 /\ r[2].y = 0
                  /\ r[1].h = H /\ r[2].h = H
                  /\ r[1].w + r[2].w = W
                  /\ r[1].w - r[2].w \in -1..1
            /\ count = 3 =>
                  /\ r[1].x = 0 /\ r[2].x = r[1].w
                  /\ r[1].y = 0 /\ r[2].y = 0
                  /\ r[1].h = (2 * H) \div 3 /\ r[2].h = (2 * H) \div 3
                  /\ r[1].w + r[2].w = W
                  /\ r[3] = Rect(0, (2 * H) \div 3, W, H - (2 * H) \div 3)

\* C15 witness: a collage of three images has been composed.
C15_Witness ==
    /\ spc = "save"
    /\ Len(collage) = 3

\* C16: the images a tick composes are exactly the window of the snapshot
\* it read: every entry the store held at the read whose age at the tick's
\* clock reading is at most the interval (the boundary included), in the
\* order of the store, and nothing else; what is appended or pruned after
\* the read does not change it.
C16_ComposedIsWindowOfSnapshot ==
    collage # <<>> =>
        [i \in 1..Len(collage) |-> collage[i].id]
            = Ids(SelectSeq(snapshot,
                    LAMBDA img : current_time - img.timestamp <= COLLAGE_INTERVAL))

\* C16 witness: a collage of one image has been composed while the store
\* holds a second image, appended after the window was read.
C16_Witness ==
    /\ spc = "save"
    /\ Len(collage) = 1
    /\ Len(snapshot) = 1
    /\ Len(uploaded_images) = 2

\* the requests of Requests that carry a file whose name ends in one of
\* .png .jpg .jpeg .gif, in any case
WellNamed ==
    { req \in Requests :
        /\ req.hasFile
        /\ req.filename \in { <<"a",".","p","n","g">>, <<"a",".","J","P","G">> } }

\* upload_file turns down exactly the requests that are not well named
RejectsIllNamed == \A req \in Requests : Accepted(req) <=> req \in WellNamed

\* a request thread returns a 400
Rejects == response' = 400 /\ response # 400

\* C17: a rejected upload (no file part, empty filename, or an extension
\* other than png, jpg, jpeg, gif in any case) leaves the store, the last
\* collage time and the most recent collage as they are and emits no
\* new_upload event; an upload with an allowed extension appends exactly
\* one entry (every accepted upload is waiting to be appended or has been
\* appended once).
C17_RejectedUploadChangesNothing ==
    /\ [](/\ Len(appended) + Cardinality(pending) = nextId - 1
          /\ \A i, j \in 1..Len(appended) : i # j => appended[i] # appended[j])
    /\ [][/\ Rejects =>
                /\ RejectsIllNamed
                /\ UNCHANGED <<globalVars, pending, emitting, nextId, appended>>
          /\ Len(uploaded_images') > Len(uploaded_images) =>
                \E img \in pending : uploaded_images' = Append(uploaded_images, img)]_vars

\* C17 witness: an upload was accepted and appended, and a later upload was
\* rejected while the store held its entry.
C17_Witness ==
    /\ response = 400
    /\ Len(appended) = 1
    /\ Len(uploaded_images) = 1

\* C18: whatever the interleaving of appends and prunes, the store holds no
\* image twice and its entries are in the order in which they were appended.
C18_StoreOrderedNoDuplicates ==
    /\ \A i \in 1..Len(uploaded_images) :
          uploaded_images[i].id \in SeqToSet(appended)
    /\ \A i, j \in 1..Len(uploaded_images) :
          i < j => AppendPos(uploaded_images[i].id) < AppendPos(uploaded_images[j].id)

\* C18 witness: a prune has run and the store holds two images, the one
\* accepted second appended first.
C18_Witness ==
    /\ spc = "sleep"
    /\ recent_collage # None
    /\ Ids(uploaded_images) = <<2, 1>>

\* C19: the list of images a new_upload event carries contains the image
\* whose upload the event announces, however the handler's append and read
\* of the store interleave with the scheduler's prune.
C19_UploadEventListsOwnImage ==
    \A k \in 1..Len(UploadEvents) :
        UploadEvents[k].filename \in SeqToSet(UploadEvents[k].uploaded_images)

\* C20: no tick starts while the countdown shown to the subscribers is
\* positive: at the clock reading with which a cycle starts, the interval
\* minus the time since last_collage_time is at most 0, for the first tick
\* and for every later one; so last_collage_time grows by at least the
\* interval from one tick to the next.
C20_NoTickBeforeCountdownEnds ==
    /\ spc \in {"cdc_filter", "compose", "save", "update_time"} =>
          COLLAGE_INTERVAL - (current_time - last_collage_time) <= 0
    /\ spc \in CyclePcs /\ last_collage_time # cycle0.time =>
          last_collage_time - cycle0.time >= COLLAGE_INTERVAL

\* C20 witness: a second tick has started and has stored its
\* last_collage_time.
C20_Witness ==
    /\ spc = "update_recent"
    /\ cycle0.recent # None
    /\ last_collage_time = current_time
====
